---- MODULE Spec2Model ----
(***************************************************************************)
(* Model of interop/client/main.go: the QUIC interop test client.          *)
(* runTestcase dispatches on the TESTCASE identifier to one of the         *)
(* orchestration strategies; downloadFiles fans a batch of downloadFile    *)
(* calls out over an errgroup.Group; downloadFile performs one exchange    *)
(* through an http.RoundTripper and stores the body.                       *)
(*                                                                         *)
(* External calls (RoundTrip, Close, os.Create, io.Copy) may succeed or    *)
(* fail: their outcome is chosen nondeterministically.                     *)
(***************************************************************************)
EXTENDS Integers, Sequences, FiniteSets

\* ---------------------------------------------------------------- bounds
\* longest URL list (flag.Args()) explored
MaxUrls == 3

\* ------------------------------------------------------------- constants
\* capacity passed to tls.NewLRUClientSessionCache
SessionCacheCapacity == 1

\* 0x1a2a3a4a, the reserved version the probe offers
ReservedVersion == 439041610

\* ------------------------------------------------------------ input sets
\* "%" stands for a URL that http.NewRequest cannot parse
URLs == {"/a", "%"}

KnownTestcases ==
  {"http3", "handshake", "transfer", "retry",
   "multiconnect", "versionnegotiation", "resumption", "zerortt"}

\* identifiers the switch does not list (it compares case-sensitively)
UnknownTestcases == {"", "HTTP3", "ecn"}

Testcases == KnownTestcases \cup UnknownTestcases

UrlLists == UNION {[1..n -> URLs] : n \in 0..MaxUrls}

\* protocol.SupportedVersions before the client touches it
DefaultVersions == <<"VersionTLS", "VersionDraft29">>

\* --------------------------------------------------------------- errors
\* An error value is identified by the place that created it (site) and
\* carries a message, a sequence of text fragments.
Nil == [site |-> "nil", msg |-> <<>>]

errUnsupported == [site |-> "errUnsupported", msg |-> <<"unsupported test case">>]

\* the text runVersionNegotiationTest looks for, split in two fragments
VersionMismatch == <<"No compatible", "QUIC version found">>

\* messages a failing RoundTrip may carry
TransportMsgs ==
  { VersionMismatch,
    <<"handshake:">> \o VersionMismatch,
    <<"No compatible">>,
    <<"QUIC version found", "No compatible">> }

RoundTripErr(m) == [site |-> "RoundTrip", msg |-> m]

NewRequestErr == [site |-> "NewRequest", msg |-> <<"parse: invalid URL escape">>]

CreateErr == [site |-> "os.Create", msg |-> <<"open: permission denied">>]

CopyErr == [site |-> "io.Copy", msg |-> <<"unexpected EOF">>]

CloseErr == [site |-> "Close", msg |-> <<"close failed">>]

\* a test for the text at the start of s only (strings.HasPrefix)
Contains_Prefix(s, substr) ==
  Len(substr) <= Len(s) /\ SubSeq(s, 1, Len(substr)) = substr

\* strings.Contains on fragment sequences
Contains(s, substr) ==
  \E k \in 0..(Len(s) - Len(substr)) : SubSeq(s, k + 1, k + Len(substr)) = substr

\* http.MethodGet and http09.MethodGet0RTT
MethodGet == "GET"

MethodGet0RTT == "GET_0RTT"

\* whether http.NewRequest accepts the URL
ParsesURL(u) == u # "%"

\* "/downloads" + req.URL.Path
DownloadPath(u) == <<"/downloads", u>>

VARIABLES
  testcase,           \* os.Getenv("TESTCASE")
  urls,               \* flag.Args()
  pc,                 \* position of the main goroutine
  i,                  \* index of runMultiConnectTest's range loop
  handles,            \* every RoundTripper constructed so far, in order
  cl,                 \* the RoundTripper passed to the running downloadFiles/downloadFile
  targets,            \* indexes into urls handed to the running batch
  use0RTT,            \* use0RTT argument of the running batch
  df,                 \* position inside downloadFiles / a direct downloadFile call
  tasks,              \* downloadFile invocations of the running batch
  g,                  \* the errgroup.Group: first error recorded
  ret,                \* value returned by the last downloadFiles/downloadFile
  stratResult,        \* value a strategy returned to runTestcase
  result,             \* value runTestcase returned to main
  exitCode,           \* process exit status chosen by main
  SupportedVersions,  \* protocol.SupportedVersions
  ClientSessionCache, \* tlsConf.ClientSessionCache
  downloads           \* paths created under /downloads

vars ==
  <<testcase, urls, pc, i, handles, cl, targets, use0RTT, df, tasks, g, ret,
    stratResult, result, exitCode, SupportedVersions, ClientSessionCache, downloads>>

inputs == <<testcase, urls>>

globals == <<SupportedVersions, ClientSessionCache>>

outcome == <<stratResult, result, exitCode>>

batch == <<cl, targets, use0RTT, df, tasks, g, ret>>

\* ------------------------------------------------------------- helpers
\* &http09.RoundTripper{...} / &http3.RoundTripper{...}; with it, per index
\* of urls, how many downloadFile calls were given this RoundTripper (calls),
\* how many of them reached RoundTrip (trips) and how many returned (returns)
NewRoundTripper(variant, withTLS) ==
  [variant |-> variant, tls |-> withTLS, closes |-> 0, closeErr |-> Nil,
   calls |-> [k \in 1..Len(urls) |-> 0],
   trips |-> [k \in 1..Len(urls) |-> 0],
   returns |-> [k \in 1..Len(urls) |-> 0]]

\* a downloadFile invocation that has not executed a statement yet
NewTask(h, k) ==
  [cl |-> h, idx |-> k, url |-> urls[k], pc |-> "start", err |-> Nil, method |-> "",
   body |-> "none", bodyCloses |-> 0, file |-> "none", fileCloses |-> 0]

AllDone == \A t \in 1..Len(tasks) : tasks[t].pc = "done"

\* tlsConf.ClientSessionCache as main leaves it (unset), and as
\* tls.NewLRUClientSessionCache(1) makes it
NoSessionCache == [set |-> FALSE, capacity |-> 0]

NewLRUClientSessionCache(n) == [set |-> TRUE, capacity |-> n]

\* r.Close() on handle h with outcome e
CloseHandle(h, e) ==
  [handles EXCEPT ![h].closes = @ + 1, ![h].closeErr = e]

\* results r.Close() may produce
CloseResults == {Nil, CloseErr}

Init ==
  /\ testcase \in Testcases
  /\ urls \in UrlLists
  /\ pc = "runTestcase"
  /\ i = 0
  /\ handles = <<>>
  /\ cl = 0
  /\ targets = <<>>
  /\ use0RTT = FALSE
  /\ df = "idle"
  /\ tasks = <<>>
  /\ g = [err |-> Nil]
  /\ ret = Nil
  /\ stratResult = Nil
  /\ result = Nil
  /\ exitCode = -1
  /\ SupportedVersions = DefaultVersions
  /\ ClientSessionCache = NoSessionCache
  /\ downloads = {}

\* ------------------------------------------------ downloadFiles / errgroup
\* entry of downloadFiles(cl, urls[...], use0RTT): var g errgroup.Group
StartBatch(h, tg, zeroRTT) ==
  /\ cl' = h
  /\ targets' = tg
  /\ use0RTT' = zeroRTT
  /\ df' = "go"
  /\ tasks' = <<>>
  /\ g' = [err |-> Nil]
  /\ ret' = Nil

\* a direct, synchronous call downloadFile(cl, urls[k], false)
CallDownloadFile(h, k) ==
  /\ cl' = h
  /\ targets' = <<k>>
  /\ use0RTT' = FALSE
  /\ df' = "direct"
  /\ tasks' = <<NewTask(h, k)>>
  /\ g' = [err |-> Nil]
  /\ ret' = Nil

\* one iteration of the range loop: g.Go starts a goroutine for the next url
Go ==
  /\ df = "go"
  /\ Len(tasks) < Len(targets)
  /\ tasks' = Append(tasks, NewTask(cl, targets[Len(tasks) + 1]))
  /\ UNCHANGED <<inputs, pc, i, handles, cl, targets, use0RTT, df, g, ret,
                 outcome, globals, downloads>>

\* Wait returning as soon as an error is recorded
Wait_FailFast ==
  /\ df = "go"
  /\ Len(tasks) = Len(targets)
  /\ AllDone \/ g.err # Nil
  /\ ret' = g.err
  /\ df' = "returned"
  /\ UNCHANGED <<inputs, pc, i, handles, cl, targets, use0RTT, tasks, g,
                 outcome, globals, downloads>>

\* Wait that is released only when no goroutine reported an error
Wait_StuckOnError ==
  /\ df = "go"
  /\ Len(tasks) = Len(targets)
  /\ AllDone
  /\ g.err = Nil
  /\ ret' = g.err
  /\ df' = "returned"
  /\ UNCHANGED <<inputs, pc, i, handles, cl, targets, use0RTT, tasks, g,
                 outcome, globals, downloads>>

\* g.Wait(): blocks until every started goroutine is done, returns g.err
Wait ==
  /\ df = "go"
  /\ Len(tasks) = Len(targets)
  /\ AllDone
  /\ ret' = g.err
  /\ df' = "returned"
  /\ UNCHANGED <<inputs, pc, i, handles, cl, targets, use0RTT, tasks, g,
                 outcome, globals, downloads>>

\* a group that keeps the last error it is given
ErrOnce_Last(e) == IF e # Nil THEN [err |-> e] ELSE g

\* errOnce.Do: the group keeps the first non-nil error it is given
ErrOnce(e) == IF e # Nil /\ g.err = Nil THEN [err |-> e] ELSE g

\* downloadFile invocation t returns e, its record being tk and the
\* RoundTrippers being hs.  Inside the group the goroutine hands e to errOnce
\* and signals the WaitGroup; a direct call hands e to its caller.
Finish(t, tk, e, hs) ==
  /\ tasks' = [tasks EXCEPT ![t] = [tk EXCEPT !.pc = "done", !.err = e]]
  /\ handles' = [hs EXCEPT ![tk.cl].returns[tk.idx] = @ + 1]
  /\ IF df = "direct"
       THEN /\ ret' = e
            /\ df' = "returned"
            /\ g' = g
       ELSE /\ g' = ErrOnce(e)
            /\ UNCHANGED <<ret, df>>

\* NewRequest always built with http.MethodGet
NewRequest_AlwaysGet(t) ==
  /\ df \in {"go", "direct"}
  /\ t \in 1..Len(tasks)
  /\ tasks[t].pc = "start"
  /\ LET tk == [tasks[t] EXCEPT !.method = MethodGet]
         hs == [handles EXCEPT ![tk.cl].calls[tk.idx] = @ + 1]
     IN  IF ParsesURL(tk.url)
           THEN /\ tasks' = [tasks EXCEPT ![t] = [tk EXCEPT !.pc = "req"]]
                /\ handles' = hs
                /\ UNCHANGED <<g, ret, df>>
           ELSE Finish(t, tk, NewRequestErr, hs)
  /\ UNCHANGED <<inputs, pc, i, cl, targets, use0RTT, outcome, globals, downloads>>

\* ------------------------------------------------------------ downloadFile
\* method selection and http.NewRequest
NewRequest(t) ==
  /\ df \in {"go", "direct"}
  /\ t \in 1..Len(tasks)
  /\ tasks[t].pc = "start"
  /\ LET m  == IF use0RTT THEN MethodGet0RTT ELSE MethodGet
         tk == [tasks[t] EXCEPT !.method = m]
         hs == [handles EXCEPT ![tk.cl].calls[tk.idx] = @ + 1]
     IN  IF ParsesURL(tk.url)
           THEN /\ tasks' = [tasks EXCEPT ![t] = [tk EXCEPT !.pc = "req"]]
                /\ handles' = hs
                /\ UNCHANGED <<g, ret, df>>
           ELSE Finish(t, tk, NewRequestErr, hs)
  /\ UNCHANGED <<inputs, pc, i, cl, targets, use0RTT, outcome, globals, downloads>>

\* cl.RoundTrip(req); on success defer rsp.Body.Close()
RoundTrip(t) ==
  /\ df \in {"go", "direct"}
  /\ t \in 1..Len(tasks)
  /\ tasks[t].pc = "req"
  /\ LET hs == [handles EXCEPT ![tasks[t].cl].trips[tasks[t].idx] = @ + 1]
     IN  \/ /\ tasks' = [tasks EXCEPT ![t].pc = "rsp", ![t].body = "open"]
            /\ handles' = hs
            /\ UNCHANGED <<g, ret, df>>
         \/ \E m \in TransportMsgs : Finish(t, tasks[t], RoundTripErr(m), hs)
  /\ UNCHANGED <<inputs, pc, i, cl, targets, use0RTT, outcome, globals, downloads>>

\* Create returning its error without closing the response body
Create_LeakBody(t) ==
  /\ df \in {"go", "direct"}
  /\ t \in 1..Len(tasks)
  /\ tasks[t].pc = "rsp"
  /\ \/ /\ tasks' = [tasks EXCEPT ![t].pc = "file", ![t].file = "open"]
        /\ downloads' = downloads \cup {DownloadPath(tasks[t].url)}
        /\ UNCHANGED <<handles, g, ret, df>>
     \/ /\ Finish(t, tasks[t], CreateErr, handles)
        /\ UNCHANGED downloads
  /\ UNCHANGED <<inputs, pc, i, cl, targets, use0RTT, outcome, globals>>

\* os.Create("/downloads" + req.URL.Path); on success defer file.Close()
Create(t) ==
  /\ df \in {"go", "direct"}
  /\ t \in 1..Len(tasks)
  /\ tasks[t].pc = "rsp"
  /\ \/ /\ tasks' = [tasks EXCEPT ![t].pc = "file", ![t].file = "open"]
        /\ downloads' = downloads \cup {DownloadPath(tasks[t].url)}
        /\ UNCHANGED <<handles, g, ret, df>>
     \/ /\ Finish(t, [tasks[t] EXCEPT !.body = "closed", !.bodyCloses = @ + 1],
                  CreateErr, handles)
        /\ UNCHANGED downloads
  /\ UNCHANGED <<inputs, pc, i, cl, targets, use0RTT, outcome, globals>>

\* io.Copy(file, rsp.Body), then the deferred file.Close() and Body.Close()
Copy(t) ==
  /\ df \in {"go", "direct"}
  /\ t \in 1..Len(tasks)
  /\ tasks[t].pc = "file"
  /\ \E e \in {Nil, CopyErr} :
       Finish(t, [tasks[t] EXCEPT !.file = "closed", !.fileCloses = @ + 1,
                                  !.body = "closed", !.bodyCloses = @ + 1],
              e, handles)
  /\ UNCHANGED <<inputs, pc, i, cl, targets, use0RTT, outcome, globals, downloads>>

\* ---------------------------------------------------------------- runTestcase
\* full URL list, as indexes
AllUrls == [k \in 1..Len(urls) |-> k]

\* a strategy function returns e to runTestcase
StrategyReturns(e) ==
  /\ stratResult' = e
  /\ pc' = "strategy_returned"
  /\ UNCHANGED <<result, exitCode>>

\* case "http3": http3.RoundTripper, defer r.Close(), downloadFiles(r, urls, false)
RunHTTP3 ==
  /\ pc = "runTestcase"
  /\ testcase = "http3"
  /\ handles' = Append(handles, NewRoundTripper("http3", TRUE))
  /\ StartBatch(Len(handles) + 1, AllUrls, FALSE)
  /\ pc' = "plain"
  /\ UNCHANGED <<inputs, i, outcome, globals, downloads>>

\* case "handshake", "transfer", "retry": falls out of the switch to the
\* http09.RoundTripper, defer r.Close(), downloadFiles(r, urls, false)
RunHTTP09 ==
  /\ pc = "runTestcase"
  /\ testcase \in {"handshake", "transfer", "retry"}
  /\ handles' = Append(handles, NewRoundTripper("http09", TRUE))
  /\ StartBatch(Len(handles) + 1, AllUrls, FALSE)
  /\ pc' = "plain"
  /\ UNCHANGED <<inputs, i, outcome, globals, downloads>>

\* PlainReturn closing the RoundTripper on the success path only
PlainReturn_NoDefer ==
  /\ pc = "plain"
  /\ df = "returned"
  /\ IF ret = Nil
       THEN \E e \in CloseResults : handles' = CloseHandle(cl, e)
       ELSE handles' = handles
  /\ result' = ret
  /\ pc' = "returned"
  /\ df' = "idle"
  /\ UNCHANGED <<inputs, i, cl, targets, use0RTT, tasks, g, ret, stratResult,
                 exitCode, globals, downloads>>

\* return downloadFiles(...): the deferred r.Close() runs, its result is
\* dropped, and runTestcase returns what downloadFiles returned
PlainReturn ==
  /\ pc = "plain"
  /\ df = "returned"
  /\ \E e \in CloseResults : handles' = CloseHandle(cl, e)
  /\ result' = ret
  /\ pc' = "returned"
  /\ df' = "idle"
  /\ UNCHANGED <<inputs, i, cl, targets, use0RTT, tasks, g, ret, stratResult,
                 exitCode, globals, downloads>>

\* a switch whose default falls out to the http09 transfer
RunUnsupported_FallThrough ==
  /\ pc = "runTestcase"
  /\ testcase \notin KnownTestcases
  /\ handles' = Append(handles, NewRoundTripper("http09", TRUE))
  /\ StartBatch(Len(handles) + 1, AllUrls, FALSE)
  /\ pc' = "plain"
  /\ UNCHANGED <<inputs, i, outcome, globals, downloads>>

\* default: return errUnsupported
RunUnsupported ==
  /\ pc = "runTestcase"
  /\ testcase \notin KnownTestcases
  /\ result' = errUnsupported
  /\ pc' = "returned"
  /\ UNCHANGED <<inputs, i, handles, batch, stratResult, exitCode, globals, downloads>>

\* return runMultiConnectTest(urls) / runVersionNegotiationTest(urls) /
\* runResumptionTest(urls, ...): the strategy's value is returned as it is
RunTestcaseReturn ==
  /\ pc = "strategy_returned"
  /\ result' = stratResult
  /\ pc' = "returned"
  /\ UNCHANGED <<inputs, i, handles, batch, stratResult, exitCode, globals, downloads>>

\* main: exit status from runTestcase's error
Main ==
  /\ pc = "returned"
  /\ exitCode' = IF result = Nil THEN 0
                 ELSE IF result = errUnsupported THEN 127 ELSE 1
  /\ pc' = "exited"
  /\ UNCHANGED <<inputs, i, handles, batch, stratResult, result, globals, downloads>>

\* ------------------------------------------------------- runMultiConnectTest
\* case "multiconnect": enter runMultiConnectTest
RunMultiConnect ==
  /\ pc = "runTestcase"
  /\ testcase = "multiconnect"
  /\ i' = 1
  /\ pc' = "mc_loop"
  /\ UNCHANGED <<inputs, handles, batch, outcome, globals, downloads>>

\* McNext opening the next RoundTripper only when none exists yet
McNext_Reuse ==
  /\ pc = "mc_loop"
  /\ IF i <= Len(urls)
       THEN /\ IF handles = <<>>
                 THEN /\ handles' = Append(handles, NewRoundTripper("http09", TRUE))
                      /\ CallDownloadFile(Len(handles) + 1, i)
                 ELSE /\ handles' = handles
                      /\ CallDownloadFile(Len(handles), i)
            /\ pc' = "mc_fetch"
            /\ UNCHANGED outcome
       ELSE /\ StrategyReturns(Nil)
            /\ UNCHANGED <<handles, batch>>
  /\ UNCHANGED <<inputs, i, globals, downloads>>

\* loop head: next url gets a new http09.RoundTripper and a downloadFile
\* call; after the last url return nil
McNext ==
  /\ pc = "mc_loop"
  /\ IF i <= Len(urls)
       THEN /\ handles' = Append(handles, NewRoundTripper("http09", TRUE))
            /\ CallDownloadFile(Len(handles) + 1, i)
            /\ pc' = "mc_fetch"
            /\ UNCHANGED outcome
       ELSE /\ StrategyReturns(Nil)
            /\ UNCHANGED <<handles, batch>>
  /\ UNCHANGED <<inputs, i, globals, downloads>>

\* McFetched going on to Close whatever downloadFile returned
McFetched_Continue ==
  /\ pc = "mc_fetch"
  /\ df = "returned"
  /\ df' = "idle"
  /\ pc' = "mc_close"
  /\ UNCHANGED outcome
  /\ UNCHANGED <<inputs, i, handles, cl, targets, use0RTT, tasks, g, ret,
                 globals, downloads>>

\* if err := downloadFile(...); err != nil { return err }
McFetched ==
  /\ pc = "mc_fetch"
  /\ df = "returned"
  /\ df' = "idle"
  /\ IF ret # Nil
       THEN StrategyReturns(ret)
       ELSE /\ pc' = "mc_close"
            /\ UNCHANGED outcome
  /\ UNCHANGED <<inputs, i, handles, cl, targets, use0RTT, tasks, g, ret,
                 globals, downloads>>

\* if err := r.Close(); err != nil { return err }
McClose ==
  /\ pc = "mc_close"
  /\ \E e \in CloseResults :
       /\ handles' = CloseHandle(cl, e)
       /\ IF e # Nil
            THEN /\ StrategyReturns(e)
                 /\ i' = i
            ELSE /\ i' = i + 1
                 /\ pc' = "mc_loop"
                 /\ UNCHANGED outcome
  /\ UNCHANGED <<inputs, batch, globals, downloads>>

\* ------------------------------------------------- runVersionNegotiationTest
\* error of the URL-count check (the text is the source's)
VnArgsErr == [site |-> "runVersionNegotiationTest", msg |-> <<"expected at least 2 URLs">>]

VnSucceededErr == [site |-> "runVersionNegotiationTest",
                   msg |-> <<"expected version negotiation to fail">>]

\* fmt.Errorf("expect version negotiation error, got: %s", err.Error())
VnWrongErr(e) == [site |-> "runVersionNegotiationTest",
                  msg |-> <<"expect version negotiation error, got:">> \o e.msg]

\* RunVersionNegotiation rejecting only the empty list and probing urls[0]
RunVersionNegotiation_AtLeastOne ==
  /\ pc = "runTestcase"
  /\ testcase = "versionnegotiation"
  /\ IF Len(urls) < 1
       THEN /\ StrategyReturns(VnArgsErr)
            /\ UNCHANGED <<handles, batch, SupportedVersions>>
       ELSE /\ SupportedVersions' = <<ReservedVersion>>
            /\ handles' = Append(handles, NewRoundTripper("http09", FALSE))
            /\ CallDownloadFile(Len(handles) + 1, 1)
            /\ pc' = "vn_fetch"
            /\ UNCHANGED outcome
  /\ UNCHANGED <<inputs, i, ClientSessionCache, downloads>>

\* case "versionnegotiation": URL-count check, SupportedVersions overwritten,
\* downloadFile on an http09.RoundTripper without TLS configuration
RunVersionNegotiation ==
  /\ pc = "runTestcase"
  /\ testcase = "versionnegotiation"
  /\ IF Len(urls) # 1
       THEN /\ StrategyReturns(VnArgsErr)
            /\ UNCHANGED <<handles, batch, SupportedVersions>>
       ELSE /\ SupportedVersions' = <<ReservedVersion>>
            /\ handles' = Append(handles, NewRoundTripper("http09", FALSE))
            /\ CallDownloadFile(Len(handles) + 1, 1)
            /\ pc' = "vn_fetch"
            /\ UNCHANGED outcome
  /\ UNCHANGED <<inputs, i, ClientSessionCache, downloads>>

\* what the probe returns for the error err of its fetch
VnVerdict(err) ==
  IF err = Nil THEN VnSucceededErr
  ELSE IF ~Contains(err.msg, VersionMismatch) THEN VnWrongErr(err)
  ELSE Nil

\* the two checks on err after downloadFile returned
VnCheck ==
  /\ pc = "vn_fetch"
  /\ df = "returned"
  /\ df' = "idle"
  /\ StrategyReturns(VnVerdict(ret))
  /\ UNCHANGED <<inputs, i, handles, cl, targets, use0RTT, tasks, g, ret,
                 globals, downloads>>

\* --------------------------------------------------------- runResumptionTest
RsArgsErr == [site |-> "runResumptionTest", msg |-> <<"expected at least 2 URLs">>]

\* both resumption identifiers passing true
ResumptionUse0RTT_Always == testcase \in {"resumption", "zerortt"}

\* the use0RTT argument runTestcase passes
ResumptionUse0RTT == testcase = "zerortt"

\* RunResumption accepting a single URL (len(urls) < 1)
RunResumption_OneUrl ==
  /\ pc = "runTestcase"
  /\ testcase \in {"resumption", "zerortt"}
  /\ IF Len(urls) < 1
       THEN /\ StrategyReturns(RsArgsErr)
            /\ UNCHANGED <<handles, batch, ClientSessionCache>>
       ELSE /\ ClientSessionCache' = NewLRUClientSessionCache(SessionCacheCapacity)
            /\ handles' = Append(handles, NewRoundTripper("http09", TRUE))
            /\ StartBatch(Len(handles) + 1, <<1>>, FALSE)
            /\ pc' = "rs_phase1"
            /\ UNCHANGED outcome
  /\ UNCHANGED <<inputs, i, SupportedVersions, downloads>>

\* case "resumption", "zerortt": URL-count check, new session cache, first
\* RoundTripper, downloadFiles(r, urls[:1], false)
RunResumption ==
  /\ pc = "runTestcase"
  /\ testcase \in {"resumption", "zerortt"}
  /\ IF Len(urls) < 2
       THEN /\ StrategyReturns(RsArgsErr)
            /\ UNCHANGED <<handles, batch, ClientSessionCache>>
       ELSE /\ ClientSessionCache' = NewLRUClientSessionCache(SessionCacheCapacity)
            /\ handles' = Append(handles, NewRoundTripper("http09", TRUE))
            /\ StartBatch(Len(handles) + 1, <<1>>, FALSE)
            /\ pc' = "rs_phase1"
            /\ UNCHANGED outcome
  /\ UNCHANGED <<inputs, i, SupportedVersions, downloads>>

\* RsPhase1Done without the r.Close() that follows it
RsPhase1Done_NoClose ==
  /\ pc = "rs_phase1"
  /\ df = "returned"
  /\ df' = "idle"
  /\ IF ret # Nil
       THEN StrategyReturns(ret)
       ELSE /\ pc' = "rs_open2"
            /\ UNCHANGED outcome
  /\ UNCHANGED <<inputs, i, handles, cl, targets, use0RTT, tasks, g, ret,
                 globals, downloads>>

\* RsPhase1Done going on whatever downloadFiles returned
RsPhase1Done_IgnoreErr ==
  /\ pc = "rs_phase1"
  /\ df = "returned"
  /\ df' = "idle"
  /\ pc' = "rs_close1"
  /\ UNCHANGED outcome
  /\ UNCHANGED <<inputs, i, handles, cl, targets, use0RTT, tasks, g, ret,
                 globals, downloads>>

\* if err := downloadFiles(r, urls[:1], false); err != nil { return err }
RsPhase1Done ==
  /\ pc = "rs_phase1"
  /\ df = "returned"
  /\ df' = "idle"
  /\ IF ret # Nil
       THEN StrategyReturns(ret)
       ELSE /\ pc' = "rs_close1"
            /\ UNCHANGED outcome
  /\ UNCHANGED <<inputs, i, handles, cl, targets, use0RTT, tasks, g, ret,
                 globals, downloads>>

\* r.Close() of the first RoundTripper; the result is not looked at
RsClose1 ==
  /\ pc = "rs_close1"
  /\ \E e \in CloseResults : handles' = CloseHandle(cl, e)
  /\ pc' = "rs_open2"
  /\ UNCHANGED <<inputs, i, batch, outcome, globals, downloads>>

\* phase 2 on the RoundTripper of phase 1
RsPhase2_Reuse ==
  /\ pc = "rs_open2"
  /\ handles' = handles
  /\ StartBatch(cl, [k \in 1..(Len(urls) - 1) |-> k + 1], ResumptionUse0RTT)
  /\ pc' = "rs_phase2"
  /\ UNCHANGED <<inputs, i, outcome, globals, downloads>>

\* second RoundTripper, defer r.Close(), downloadFiles(r, urls[1:], use0RTT)
RsPhase2 ==
  /\ pc = "rs_open2"
  /\ handles' = Append(handles, NewRoundTripper("http09", TRUE))
  /\ StartBatch(Len(handles) + 1, [k \in 1..(Len(urls) - 1) |-> k + 1],
                ResumptionUse0RTT)
  /\ pc' = "rs_phase2"
  /\ UNCHANGED <<inputs, i, outcome, globals, downloads>>

\* return downloadFiles(...): the deferred r.Close() runs, its result dropped
RsPhase2Done ==
  /\ pc = "rs_phase2"
  /\ df = "returned"
  /\ df' = "idle"
  /\ \E e \in CloseResults : handles' = CloseHandle(cl, e)
  /\ StrategyReturns(ret)
  /\ UNCHANGED <<inputs, i, cl, targets, use0RTT, tasks, g, ret, globals, downloads>>

\* ------------------------------------------------------------ specification
Next ==
  \/ RunHTTP3
  \/ RunHTTP09
  \/ RunMultiConnect
  \/ RunVersionNegotiation
  \/ RunResumption
  \/ RunUnsupported
  \/ Go
  \/ Wait
  \/ \E t \in 1..MaxUrls : NewRequest(t)
  \/ \E t \in 1..MaxUrls : RoundTrip(t)
  \/ \E t \in 1..MaxUrls : Create(t)
  \/ \E t \in 1..MaxUrls : Copy(t)
  \/ PlainReturn
  \/ McNext
  \/ McFetched
  \/ McClose
  \/ VnCheck
  \/ RsPhase1Done
  \/ RsClose1
  \/ RsPhase2
  \/ RsPhase2Done
  \/ RunTestcaseReturn
  \/ Main

Spec == Init /\ [][Next]_vars

\* ------------------------------------------------------------------ claims
\* the strategy has returned (to runTestcase or further)
Returned == pc \in {"strategy_returned", "returned", "exited"}

\* position of the main goroutine inside downloadFiles
InDownloadFiles == pc \in {"plain", "rs_phase1", "rs_phase2"}

Running(t) == tasks[t].pc # "done"

Handles == 1..Len(handles)

Indexes == 1..Len(urls)

\* C1: once the strategy has returned, every RoundTripper it constructed has
\* been closed exactly once, also when it returned early on a failed fetch.
C1_EveryHandleClosedOnce ==
  Returned => \A h \in Handles : handles[h].closes = 1

\* C2: in a Resumption run with at least 2 URLs the first RoundTripper is
\* given urls[0] only, the second exactly urls[1:], each once, and the second
\* RoundTripper exists only after the first fetch returned and the first
\* RoundTripper was closed.
C2_ResumptionPhases ==
  (testcase \in {"resumption", "zerortt"} /\ Len(urls) >= 2) =>
    /\ Len(handles) <= 2
    /\ \A h \in Handles : \A k \in Indexes :
         /\ handles[h].calls[k] <= 1
         /\ handles[h].calls[k] = 1 => (IF h = 1 THEN k = 1 ELSE k >= 2)
    /\ Len(handles) = 2 =>
         /\ handles[1].calls[1] = 1
         /\ handles[1].returns[1] = 1
         /\ handles[1].closes = 1
    /\ (Returned /\ Len(handles) = 2) =>
         \A k \in 2..Len(urls) : /\ handles[2].calls[k] = 1
                                 /\ handles[2].returns[k] = 1

\* a Resumption run that went through both phases with 2 URLs in phase 2
C2_Witness ==
  /\ testcase = "zerortt"
  /\ Len(urls) = 3
  /\ pc = "exited"
  /\ Len(handles) = 2
  /\ handles[2].trips[2] = 1
  /\ handles[2].trips[3] = 1

\* C3: Multi-Connect opens one RoundTripper per URL, in order open, fetch,
\* close: RoundTripper h is given urls[h-1] only, once, and every RoundTripper
\* but the newest has finished its fetch and is closed; when all fetches and
\* closes succeeded there are exactly N RoundTrippers, each closed once.
C3_MultiConnectOrder ==
  testcase = "multiconnect" =>
    /\ \A h \in Handles : \A k \in Indexes :
         /\ handles[h].calls[k] <= 1
         /\ handles[h].calls[k] = 1 => k = h
    /\ \A h \in Handles : h < Len(handles) =>
         /\ handles[h].calls[h] = 1
         /\ handles[h].returns[h] = 1
         /\ handles[h].closes = 1
    /\ \A h \in Handles : handles[h].closes = 1 => handles[h].returns[h] = 1
    /\ (Returned /\ stratResult = Nil) =>
         /\ Len(handles) = Len(urls)
         /\ \A h \in Handles : /\ handles[h].closes = 1
                               /\ handles[h].calls[h] = 1
                               /\ handles[h].closeErr = Nil

\* a Multi-Connect run over 3 URLs in which everything succeeded
C3_Witness ==
  /\ testcase = "multiconnect"
  /\ Len(urls) = 3
  /\ pc = "exited"
  /\ result = Nil
  /\ Len(handles) = 3

\* C4: downloadFiles starts one downloadFile per target, never more, and has
\* returned only when every one of them has run to its end, however many of
\* them failed.
C4_AllInvocationsComplete ==
  InDownloadFiles =>
    /\ Len(tasks) <= Len(targets)
    /\ \A t \in 1..Len(tasks) : tasks[t].idx = targets[t]
    /\ df = "returned" =>
         /\ Len(tasks) = Len(targets)
         /\ \A t \in 1..Len(tasks) :
              /\ tasks[t].pc = "done"
              /\ handles[cl].calls[tasks[t].idx] = 1
              /\ handles[cl].returns[tasks[t].idx] = 1

\* a batch of 3 that returned after exactly one invocation failed
C4_Witness ==
  /\ pc = "plain"
  /\ df = "returned"
  /\ Len(tasks) = 3
  /\ Cardinality({t \in 1..3 : tasks[t].err # Nil}) = 1
  /\ Cardinality({t \in 1..3 : tasks[t].file = "closed"}) = 2

\* what a returned downloadFiles hands back: nil exactly when every
\* invocation returned nil, else an error one of its invocations returned
C5_ResultOfBatch ==
  (InDownloadFiles /\ df = "returned") =>
    /\ ret = Nil <=> \A t \in 1..Len(tasks) : tasks[t].err = Nil
    /\ ret # Nil => \E t \in 1..Len(tasks) : tasks[t].err = ret
    /\ Len(targets) = 0 => (tasks = <<>> /\ ret = Nil)

\* an invocation returning inside the group: the group's error becomes its
\* error if none was recorded before, and is kept otherwise
C5_FirstErrorKept ==
  \A t \in 1..Len(tasks) :
    (df = "go" /\ Len(tasks') = Len(tasks) /\ tasks[t].pc # "done"
       /\ tasks'[t].pc = "done") =>
      g'.err = (IF g.err # Nil THEN g.err ELSE tasks'[t].err)

\* C5: downloadFiles returns nil if and only if every invocation succeeded
\* (so for an empty list, without any fetch); otherwise it returns the error
\* of the first of its invocations to fail, under every interleaving.
C5_FirstErrorReturned ==
  /\ []C5_ResultOfBatch
  /\ [][C5_FirstErrorKept]_vars
  /\ [][(df = "go" /\ df' = "returned") => ret' = g.err]_vars

\* two invocations failed with different errors and the batch returned the
\* error of the later-started one
C5_Witness ==
  /\ pc = "plain"
  /\ df = "returned"
  /\ Len(tasks) = 2
  /\ tasks[1].err = CopyErr
  /\ tasks[2].err = NewRequestErr
  /\ ret = NewRequestErr

\* error messages of the model that contain the version-mismatch text
MismatchMsgs == {VersionMismatch, <<"handshake:">> \o VersionMismatch}

\* C6: with exactly one URL the probe makes exactly one fetch and returns nil
\* if and only if that fetch failed with a message containing the
\* version-mismatch text; otherwise it returns an error of its own.
C6_ProbeVerdict ==
  (testcase = "versionnegotiation" /\ Len(urls) = 1) =>
    /\ Len(handles) <= 1
    /\ \A h \in Handles : handles[h].calls[1] <= 1 /\ handles[h].trips[1] <= 1
    /\ Returned =>
         /\ Len(handles) = 1
         /\ handles[1].calls[1] = 1
         /\ handles[1].returns[1] = 1
         /\ stratResult = Nil <=>
              (tasks[1].err # Nil /\ tasks[1].err.msg \in MismatchMsgs)
         /\ stratResult # Nil =>
              /\ stratResult.site = "runVersionNegotiationTest"
              /\ stratResult # VnArgsErr
         /\ tasks[1].err = Nil => stratResult = VnSucceededErr

\* the probe succeeded on a mismatch message that does not start the text
C6_Witness ==
  /\ testcase = "versionnegotiation"
  /\ pc = "exited"
  /\ result = Nil
  /\ tasks[1].err = RoundTripErr(<<"handshake:">> \o VersionMismatch)

\* C7: for an identifier outside the eight known ones runTestcase returns
\* errUnsupported, which no known identifier ever yields, and nothing else
\* happens: no RoundTripper, no fetch, no file, versions and session cache
\* untouched.
C7_UnsupportedNoActivity ==
  /\ testcase \notin KnownTestcases =>
       /\ pc \in {"returned", "exited"} => result = errUnsupported
       /\ pc \in {"runTestcase", "returned", "exited"}
       /\ pc = "exited" => exitCode = 127
       /\ handles = <<>>
       /\ tasks = <<>>
       /\ df = "idle"
       /\ downloads = {}
       /\ SupportedVersions = DefaultVersions
       /\ ClientSessionCache = NoSessionCache
  /\ testcase \in KnownTestcases =>
       /\ result # errUnsupported
       /\ stratResult # errUnsupported
       /\ exitCode # 127

\* an identifier differing from a known one only in case, rejected
C7_Witness ==
  /\ testcase = "HTTP3"
  /\ pc = "exited"
  /\ exitCode = 127
  /\ result = errUnsupported

\* the runs of one Plain Transfer on RoundTripper variant v, seen at any time:
\* at most one RoundTripper, of that variant, bound to tlsConf, handed to one
\* downloadFiles batch over the whole URL list without 0-RTT
PlainTransferOn(v) ==
  /\ pc \in {"runTestcase", "plain", "returned", "exited"}
  /\ Len(handles) <= 1
  /\ \A h \in Handles : handles[h].variant = v /\ handles[h].tls
  /\ pc # "runTestcase" =>
       /\ Len(handles) = 1
       /\ targets = AllUrls
       /\ ~use0RTT
       /\ df # "direct"
  /\ pc \in {"returned", "exited"} =>
       /\ result = ret
       /\ ret = g.err
       /\ \A k \in Indexes : handles[1].calls[k] = 1

\* the runs of runMultiConnectTest
MultiConnectRuns ==
  /\ pc \in {"runTestcase", "mc_loop", "mc_fetch", "mc_close",
             "strategy_returned", "returned", "exited"}
  /\ \A h \in Handles : handles[h].variant = "http09" /\ handles[h].tls
  /\ df \in {"idle", "direct", "returned"}
  /\ ~use0RTT

\* the runs of runVersionNegotiationTest
ProbeRuns ==
  /\ pc \in {"runTestcase", "vn_fetch", "strategy_returned", "returned", "exited"}
  /\ \A h \in Handles : handles[h].variant = "http09" /\ ~handles[h].tls
  /\ df \in {"idle", "direct", "returned"}
  /\ ~use0RTT

\* the runs of runResumptionTest(urls, zeroRTT)
ResumptionRuns(zeroRTT) ==
  /\ pc \in {"runTestcase", "rs_phase1", "rs_close1", "rs_open2", "rs_phase2",
             "strategy_returned", "returned", "exited"}
  /\ \A h \in Handles : handles[h].variant = "http09" /\ handles[h].tls
  /\ df # "direct"
  /\ use0RTT <=> (zeroRTT /\ Len(handles) = 2)
  /\ \A t \in 1..Len(tasks) :
       tasks[t].pc # "start" =>
         tasks[t].method = (IF zeroRTT /\ tasks[t].cl = 2 THEN MethodGet0RTT
                            ELSE MethodGet)

\* C8: every known identifier runs the strategy assigned to it (http3: Plain
\* Transfer on http3; handshake, transfer, retry: Plain Transfer on http09;
\* multiconnect; versionnegotiation; resumption and zerortt: Resumption
\* without and with 0-RTT), and runTestcase returns the strategy's value as
\* it is.
C8_DispatchTable ==
  /\ testcase = "http3" => PlainTransferOn("http3")
  /\ testcase \in {"handshake", "transfer", "retry"} => PlainTransferOn("http09")
  /\ testcase = "multiconnect" => MultiConnectRuns
  /\ testcase = "versionnegotiation" => ProbeRuns
  /\ testcase = "resumption" => ResumptionRuns(FALSE)
  /\ testcase = "zerortt" => ResumptionRuns(TRUE)
  /\ (testcase \in {"multiconnect", "versionnegotiation", "resumption", "zerortt"}
        /\ pc \in {"returned", "exited"}) => result = stratResult

\* a zerortt run whose phase-2 fetch used the 0-RTT method and failed, the
\* failure reaching main
C8_Witness ==
  /\ testcase = "zerortt"
  /\ pc = "exited"
  /\ Len(handles) = 2
  /\ tasks[1].method = MethodGet0RTT
  /\ result = CopyErr
  /\ exitCode = 1

\* C9 as stated: no two unfinished downloadFile invocations hold the same
\* RoundTripper.
C9_NoSharedHandle ==
  \A t1, t2 \in 1..Len(tasks) :
    (t1 # t2 /\ Running(t1) /\ Running(t2)) => tasks[t1].cl # tasks[t2].cl

\* C9 (amended): a RoundTripper is shared only among the invocations of the
\* one batch it was handed to: every unfinished invocation holds the newest
\* RoundTripper, which is not closed yet, and no other RoundTripper is in use.
C9_HandleOwnedByOneBatch ==
  \A t \in 1..Len(tasks) :
    /\ tasks[t].cl = cl
    /\ Running(t) =>
         /\ tasks[t].cl = Len(handles)
         /\ handles[tasks[t].cl].closes = 0
         /\ \A k \in Indexes : handles[tasks[t].cl].calls[k] <= 1

\* two invocations of one phase-2 batch in flight on the same RoundTripper
C9_Witness ==
  /\ pc = "rs_phase2"
  /\ Len(tasks) = 2
  /\ tasks[1].pc = "rsp"
  /\ tasks[2].pc = "rsp"
  /\ tasks[1].cl = tasks[2].cl

\* C10: whenever a Close failed, runTestcase returns a non-nil error.
C10_CloseFailureReported ==
  (pc \in {"returned", "exited"} /\ \E h \in Handles : handles[h].closeErr # Nil)
    => result # Nil

\* what a returned Multi-Connect run that failed looks like: the error is the
\* one of the newest RoundTripper's fetch or Close, every RoundTripper before
\* it fetched and closed without error, and no later URL was touched
C11_StoppedAtFirstFailure ==
  (testcase = "multiconnect" /\ Returned /\ stratResult # Nil) =>
    LET n == Len(handles) IN
    /\ n >= 1
    /\ n = i
    /\ \/ /\ stratResult = tasks[1].err
          /\ tasks[1].idx = n
          /\ handles[n].closes = 0
       \/ /\ stratResult = handles[n].closeErr
          /\ tasks[1].err = Nil
          /\ handles[n].closes = 1
    /\ \A h \in 1..(n - 1) : handles[h].closes = 1 /\ handles[h].closeErr = Nil
    /\ \A h \in Handles : \A k \in Indexes : k > n => handles[h].calls[k] = 0

\* a RoundTripper is constructed in Multi-Connect only while the last fetch
\* and every Close so far returned nil
C11_NoOpenAfterFailure ==
  (testcase = "multiconnect" /\ Len(handles') > Len(handles)) =>
    /\ ret = Nil
    /\ \A h \in Handles : handles[h].closeErr = Nil /\ handles[h].closes = 1

\* C11: Multi-Connect returns the error of the first failing fetch or Close
\* at once; for every later URL no RoundTripper is opened and no fetch made.
C11_MultiConnectFailsFast ==
  /\ []C11_StoppedAtFirstFailure
  /\ [][C11_NoOpenAfterFailure]_vars

\* the Close of the second of 3 URLs failed and ended the run
C11_Witness ==
  /\ testcase = "multiconnect"
  /\ Len(urls) = 3
  /\ pc = "exited"
  /\ Len(handles) = 2
  /\ result = CloseErr
  /\ handles[2].trips[2] = 1

\* a Resumption run that returned with one RoundTripper: its phase-1 fetch
\* failed, that error is returned and none of urls[1:] was touched
C12_Phase1FailureReturned ==
  (testcase \in {"resumption", "zerortt"} /\ Len(urls) >= 2) =>
    /\ (Returned /\ Len(handles) = 1) =>
         /\ Len(tasks) = 1
         /\ tasks[1].idx = 1
         /\ tasks[1].err # Nil
         /\ stratResult = tasks[1].err
         /\ \A k \in 2..Len(urls) : handles[1].calls[k] = 0
    /\ (pc \in {"rs_close1", "rs_open2"} \/ Len(handles) = 2) =>
         /\ handles[1].returns[1] = 1
         /\ handles[1].trips[1] = 1

\* the second RoundTripper is constructed only after a phase 1 that
\* returned nil
C12_Phase2OnlyAfterSuccess ==
  (testcase \in {"resumption", "zerortt"} /\ Len(handles') = 2 /\ Len(handles) = 1) =>
    /\ ret = Nil
    /\ g.err = Nil
    /\ tasks[1].err = Nil

\* C12: when the phase-1 fetch of urls[0] fails the Resumption strategy
\* returns that failure and never attempts phase 2: no second RoundTripper,
\* no fetch of urls[1:].
C12_Phase1ShortCircuits ==
  /\ []C12_Phase1FailureReturned
  /\ [][C12_Phase2OnlyAfterSuccess]_vars

\* a zerortt run over 3 URLs whose first exchange failed
C12_Witness ==
  /\ testcase = "zerortt"
  /\ Len(urls) = 3
  /\ pc = "exited"
  /\ Len(handles) = 1
  /\ result = RoundTripErr(<<"No compatible">>)
  /\ exitCode = 1

\* C13: with fewer than 2 URLs the Resumption strategy (resumption and
\* zerortt) returns its URL-count error and does nothing else: no
\* RoundTripper, no fetch, no file, no session cache installed in tlsConf.
C13_ResumptionNeedsTwoUrls ==
  (testcase \in {"resumption", "zerortt"} /\ Len(urls) < 2) =>
    /\ pc \in {"runTestcase", "strategy_returned", "returned", "exited"}
    /\ handles = <<>>
    /\ tasks = <<>>
    /\ df = "idle"
    /\ downloads = {}
    /\ ClientSessionCache = NoSessionCache
    /\ Returned => stratResult = RsArgsErr
    /\ pc \in {"returned", "exited"} => result = RsArgsErr
    /\ pc = "exited" => exitCode = 1

\* the spec's example: Resumption called with one URL
C13_Witness ==
  /\ testcase = "resumption"
  /\ urls = <<"/a">>
  /\ pc = "exited"
  /\ result = RsArgsErr
  /\ ClientSessionCache = NoSessionCache

\* C14: called with zero or with two or more URLs the probe returns its
\* URL-count error, makes no fetch and leaves protocol.SupportedVersions as
\* it was.
C14_ProbeNeedsOneUrl ==
  (testcase = "versionnegotiation" /\ Len(urls) # 1) =>
    /\ pc \in {"runTestcase", "strategy_returned", "returned", "exited"}
    /\ handles = <<>>
    /\ tasks = <<>>
    /\ df = "idle"
    /\ downloads = {}
    /\ SupportedVersions = DefaultVersions
    /\ Returned => stratResult = VnArgsErr
    /\ pc \in {"returned", "exited"} => result = VnArgsErr
    /\ pc = "exited" => exitCode = 1

\* the probe called with two URLs
C14_Witness ==
  /\ testcase = "versionnegotiation"
  /\ Len(urls) = 2
  /\ pc = "exited"
  /\ result = VnArgsErr
  /\ SupportedVersions = DefaultVersions

\* C15: Multi-Connect called with an empty URL list returns an error.
C15_EmptyListRejected ==
  (testcase = "multiconnect" /\ Len(urls) = 0 /\ Returned) => stratResult # Nil

\* C16: Plain Transfer constructs exactly one RoundTripper, hands it with the
\* whole URL list to one downloadFiles batch, and closes it exactly once
\* before runTestcase returns, whether the batch failed or not, and only
\* when no downloadFile of the batch is unfinished.
C16_PlainTransferHandle ==
  testcase \in {"http3", "handshake", "transfer", "retry"} =>
    /\ Len(handles) <= 1
    /\ pc # "runTestcase" =>
         /\ Len(handles) = 1
         /\ cl = 1
         /\ targets = AllUrls
         /\ \A k \in Indexes : handles[1].calls[k] <= 1
         /\ \A t \in 1..Len(tasks) : tasks[t].cl = 1
    /\ pc = "plain" => handles[1].closes = 0
    /\ pc \in {"returned", "exited"} =>
         /\ handles[1].closes = 1
         /\ Len(tasks) = Len(urls)
         /\ AllDone
         /\ \A k \in Indexes : handles[1].returns[k] = 1
    /\ \A t \in 1..Len(tasks) : Running(t) => handles[tasks[t].cl].closes = 0

\* an http3 transfer of 2 URLs, one of which failed, with the RoundTripper
\* closed at return
C16_Witness ==
  /\ testcase = "http3"
  /\ Len(urls) = 2
  /\ pc = "returned"
  /\ result = CreateErr
  /\ tasks[1].err = Nil
  /\ tasks[1].file = "closed"
  /\ handles[1].closes = 1

\* C17: protocol.SupportedVersions is the single reserved version while the
\* probe's fetch runs, and is back to its former value once the probe has
\* returned.
C17_VersionsRestored ==
  testcase = "versionnegotiation" =>
    /\ pc = "vn_fetch" => SupportedVersions = <<ReservedVersion>>
    /\ Returned => SupportedVersions = DefaultVersions

\* C18: a downloadFile call uses the 0-RTT method if and only if it belongs
\* to the phase-2 batch of a zerortt run; phase 1, test case resumption and
\* every other strategy use GET.
C18_ZeroRTTMethod ==
  \A t \in 1..Len(tasks) :
    /\ tasks[t].pc = "start" => tasks[t].method = ""
    /\ tasks[t].pc # "start" =>
         /\ tasks[t].method \in {MethodGet, MethodGet0RTT}
         /\ tasks[t].method = MethodGet0RTT <=>
              /\ testcase = "zerortt"
              /\ pc \in {"rs_phase2", "strategy_returned", "returned", "exited"}
              /\ tasks[t].cl = 2
              /\ tasks[t].idx >= 2

\* two phase-2 exchanges of a zerortt run under way with the 0-RTT method
C18_Witness ==
  /\ testcase = "zerortt"
  /\ pc = "rs_phase2"
  /\ Len(tasks) = 2
  /\ tasks[1].pc = "rsp"
  /\ tasks[2].pc = "file"
  /\ tasks[1].method = MethodGet0RTT
  /\ tasks[2].method = MethodGet0RTT

\* where a downloadFile invocation stands against what it holds: nothing
\* before the exchange, the body after it, the file after os.Create; at its
\* end the body and the file, if acquired, were each closed exactly once,
\* and the step that failed decided what was acquired
C19_TaskResources ==
  \A t \in 1..Len(tasks) :
    LET tk == tasks[t] IN
    /\ tk.pc \in {"start", "req", "rsp", "file", "done"}
    /\ tk.pc \in {"start", "req"} => (tk.body = "none" /\ tk.file = "none")
    /\ tk.pc = "start" => handles[tk.cl].calls[tk.idx] = 0
    /\ tk.pc = "req" => handles[tk.cl].trips[tk.idx] = 0
    /\ tk.pc = "rsp" => (tk.body = "open" /\ tk.file = "none")
    /\ tk.pc = "file" => (tk.body = "open" /\ tk.file = "open")
    /\ tk.pc # "done" => (tk.bodyCloses = 0 /\ tk.fileCloses = 0 /\ tk.err = Nil)
    /\ tk.body # "none" => handles[tk.cl].trips[tk.idx] = 1
    /\ tk.file # "none" => DownloadPath(tk.url) \in downloads
    /\ tk.pc = "done" =>
         /\ tk.err.site \in {"nil", "NewRequest", "RoundTrip", "os.Create", "io.Copy"}
         /\ tk.err.site = "NewRequest" =>
              /\ handles[tk.cl].trips[tk.idx] = 0
              /\ tk.body = "none" /\ tk.file = "none"
         /\ tk.err.site = "RoundTrip" =>
              /\ handles[tk.cl].trips[tk.idx] = 1
              /\ tk.body = "none" /\ tk.file = "none"
         /\ tk.err.site = "os.Create" => (tk.body = "closed" /\ tk.file = "none")
         /\ tk.err.site \in {"nil", "io.Copy"} =>
              (tk.body = "closed" /\ tk.file = "closed")
         /\ tk.bodyCloses = (IF tk.body = "none" THEN 0 ELSE 1)
         /\ tk.fileCloses = (IF tk.file = "none" THEN 0 ELSE 1)

\* a path appears under /downloads only by the os.Create of an invocation
\* that holds a response
C19_FileOnlyAfterExchange ==
  downloads' # downloads =>
    \E t \in 1..Len(tasks) :
      /\ tasks[t].pc = "rsp"
      /\ Len(tasks') = Len(tasks)
      /\ tasks'[t].pc = "file"
      /\ downloads' = downloads \cup {DownloadPath(tasks[t].url)}

\* C19: downloadFile builds the request, makes the exchange, creates the
\* file and drains the body in that order; a failing step returns its error
\* and skips the later ones; the response body and the file, once acquired,
\* are each released exactly once on every exit path.
C19_DownloaderSteps ==
  /\ []C19_TaskResources
  /\ [][C19_FileOnlyAfterExchange]_vars

\* a downloadFile whose os.Create failed, with the body released
C19_Witness ==
  /\ testcase = "multiconnect"
  /\ pc = "exited"
  /\ result = CreateErr
  /\ tasks[1].body = "closed"
  /\ tasks[1].bodyCloses = 1
  /\ tasks[1].file = "none"

\* ------------------------------------------------------------------ liveness
\* the steps of the main goroutine
MainStep ==
  \/ RunHTTP3 \/ RunHTTP09 \/ RunMultiConnect \/ RunVersionNegotiation
  \/ RunResumption \/ RunUnsupported \/ Go \/ Wait \/ PlainReturn
  \/ McNext \/ McFetched \/ McClose \/ VnCheck
  \/ RsPhase1Done \/ RsClose1 \/ RsPhase2 \/ RsPhase2Done
  \/ RunTestcaseReturn \/ Main

\* the steps of downloadFile invocation t (a goroutine of the group, or the
\* main goroutine inside a direct call)
TaskStep(t) == NewRequest(t) \/ RoundTrip(t) \/ Create(t) \/ Copy(t)

\* the main goroutine and every started goroutine keep being scheduled, and
\* every external call (RoundTrip, os.Create, io.Copy, Close) returns
FairSpec ==
  /\ Spec
  /\ WF_vars(MainStep)
  /\ \A t \in 1..MaxUrls : WF_vars(TaskStep(t))

\* C20: under fair scheduling and returning external calls, every run of
\* runTestcase returns a result (and main exits), for every test case and URL
\* list; a downloadFiles that has started always returns.
C20_AlwaysReturns ==
  /\ <>(pc = "exited")
  /\ (InDownloadFiles /\ df = "go") ~> (df = "returned")

\* a transfer of 3 URLs returned although one of its invocations had failed
C20_Witness ==
  /\ testcase = "transfer"
  /\ Len(urls) = 3
  /\ pc = "exited"
  /\ exitCode = 1
  /\ tasks[1].err # Nil
  /\ tasks[2].err = Nil
  /\ tasks[3].err = Nil

====
